---- MODULE Spec2Model ----
(***************************************************************************)
(* Inversionson: the remote-job listener and the forward / adjoint         *)
(* orchestration loops of inversionson/helpers/autoinverter_helpers.py,    *)
(* with the job-submitting calls they make into                            *)
(* components/flow_comp.py and components/multimesh_comp.py.               *)
(*                                                                         *)
(* The modelled configuration is multi-mesh with remote interpolation.     *)
(* A job record is the dictionary {name, submitted, retrieved, reposts}    *)
(* kept per stage and event by the project; the scheduler is an            *)
(* environment that answers every status query with any status.            *)
(* Calls are modelled by their effect on the job records; the passing of   *)
(* arguments (wall times, sites, ranks) is not modelled.                   *)
(***************************************************************************)
EXTENDS Integers, FiniteSets, Sequences, TLC

\* Size of the batch of events in the runs with an unconstrained scheduler.
NumEvents == 2
\* Number of process terminations followed by a restart in one behaviour.
MaxCrashes == 1
\* An event's entries in the listener's not_submitted list are counted up to
\* this value.
MaxNotSubmitted == 1

\* Number of sub-tasks of an array job.
NumTasks == 3

\* Iterations are numbered 0..MaxIteration.
MaxIteration == 1
\* iterations_between_validation_checks ranges over 0..MaxInterval.
MaxInterval == 3
\* Number of remote deletion calls made on their own in one behaviour.
MaxDeleteCalls == 1

max_reposts == 3

Stages == {"model_interp", "forward", "hpc_processing", "adjoint", "gradient_interp"}

\* Job types with a record per event: the stages above are monitored job by
\* job, smoothing as an array job per event; prepare_forward is a record
\* that only get_job reads.
JobTypes == Stages \cup {"smoothing", "prepare_forward"}

Tasks == 1..NumTasks

\* The events of an iteration; a batch is a subset of them.
AllEvents == 1..(NumEvents + 1)

\* JobStatus names of the scheduler; "other" stands for any unrecognised name.
Statuses == {"pending", "running", "finished", "failed", "unknown", "cancelled", "other"}

VARIABLES
    proc,       \* the orchestrator that runs: "dispatch", "retrieve", "gradients"
    cfg,        \* project settings and call arguments, fixed during a behaviour
    pc,         \* position of the orchestrator
    job,        \* job[stage][event]: the job record
    nsub,       \* nsub[stage][event]: jobs launched on the scheduler (history)
    lis,        \* lis[job_type]: the lists of the RemoteJobListener of that type
    todo,       \* events the loop at pc has not visited yet
    pollStart,  \* job records and launches when the running poll began (history)
    idle,       \* the step just taken invoked sleep_or_process (history)
    crashes,    \* process terminations so far
    call,       \* the last get_job_status call made on its own, and its outcome
    interpolated, \* events whose forward_job["interpolated"] was written True
    proj        \* the iteration manifests, the loaded iteration, remote deletions

vars ==
    <<proc, cfg, pc, job, nsub, lis, todo, pollStart, idle, crashes, call,
      interpolated, proj>>

\* The batch: the events handed to the orchestrators and their listeners.
Events == cfg.events

\* The project of a run that prepares no iteration.
NoProject ==
    [tomls |-> << >>, current_iteration |-> -1, deleted_iters |-> {}, rm |-> {},
     calls |-> 0]

----------------------------------------------------------------------------
(* Job records *)

NewJob == [name |-> 0, submitted |-> FALSE, retrieved |-> FALSE, reposts |-> 0]
SubmittedJob == [name |-> 1, submitted |-> TRUE, retrieved |-> FALSE, reposts |-> 0]
DoneJob == [name |-> 1, submitted |-> TRUE, retrieved |-> TRUE, reposts |-> 0]

\* Project.change_attribute on one field of one job record.
change_attribute(s, stage, e, field, value) ==
    [s EXCEPT !.job[stage][e][field] = value]

\* The scheduler accepts a job: job.launch() / sapi.run_async.
launch(s, stage, e) == [s EXCEPT !.nsub[stage][e] = @ + 1]

(* An orchestrator step is a sequence of effects on the job records, in    *)
(* program order.  k is "launch", "name_new" (the name of a job that is    *)
(* constructed but not launched yet), "name_launched" (the name returned   *)
(* by the launch), "submitted", "retrieved".                               *)
Eff(k, stage, e, v) == [k |-> k, stage |-> stage, event |-> e, v |-> v]

ApplyOp(s, op) ==
    CASE op.k = "launch" -> launch(s, op.stage, op.event)
      [] op.k = "name_new" ->
            change_attribute(s, op.stage, op.event, "name", s.nsub[op.stage][op.event] + 1)
      [] op.k = "name_launched" ->
            change_attribute(s, op.stage, op.event, "name", s.nsub[op.stage][op.event])
      [] op.k = "submitted" -> change_attribute(s, op.stage, op.event, "submitted", op.v)
      [] op.k = "retrieved" -> change_attribute(s, op.stage, op.event, "retrieved", op.v)

RECURSIVE ApplyOps(_, _, _)
\* The state after the first n effects of ops.
ApplyOps(s, ops, n) ==
    IF n = 0 THEN s ELSE ApplyOp(ApplyOps(s, ops, n - 1), ops[n])

After(s, ops) == ApplyOps(s, ops, Len(ops))

----------------------------------------------------------------------------
(* Job lookup *)

\* The sim_type arguments get_job is called with.
SimTypes ==
    {"forward", "adjoint", "gradient_interp", "hpc_processing", "prepare_forward",
     "model_interp", "smoothing"}

NoCall == [sim_type |-> "none", event |-> 0, outcome |-> "none", queried |-> FALSE]

\* SalvusFlowComponent._get_custom_job for the current iteration: the job
\* name of a submitted record is looked up in the job database, an
\* unsubmitted record raises InversionsonError; no attribute is changed.
get_custom_job(j, event, sim_type) ==
    IF j[sim_type][event].submitted
    THEN [raised |-> "none", queried |-> TRUE, job |-> j]
    ELSE [raised |-> "InversionsonError", queried |-> FALSE, job |-> j]

\* A variant that looks up forward and adjoint jobs without the assertion.
get_job_unasserted(j, event, sim_type) ==
    IF sim_type \in {"gradient_interp", "prepare_forward", "hpc_processing"}
    THEN get_custom_job(j, event, sim_type)
    ELSE IF sim_type \in {"adjoint", "forward"}
    THEN [raised |-> "none", queried |-> TRUE, job |-> j]
    ELSE [raised |-> "UnboundLocalError", queried |-> FALSE, job |-> j]

\* SalvusFlowComponent.get_job for the current iteration: the outcome
\* (raised), whether the job database or the scheduler is reached (queried)
\* and the job records afterwards.  A sim_type that is neither custom nor
\* forward nor adjoint leaves job_name unbound.
get_job(j, event, sim_type) ==
    IF sim_type \in {"gradient_interp", "prepare_forward", "hpc_processing"}
    THEN get_custom_job(j, event, sim_type)
    ELSE IF sim_type \in {"adjoint", "forward"}
    THEN IF j[sim_type][event].submitted
         THEN [raised |-> "none", queried |-> TRUE, job |-> j]
         ELSE [raised |-> "AssertionError", queried |-> FALSE, job |-> j]
    ELSE [raised |-> "UnboundLocalError", queried |-> FALSE, job |-> j]

\* SalvusFlowComponent.get_job_status: get_job, then update_status on the
\* job it returned; st is the scheduler's answer.
GetJobStatus(e, sim_type, st) ==
    /\ pc = "lookup"
    /\ e \in Events
    /\ LET r == get_job(job, e, sim_type)
       IN  /\ job' = r.job
           /\ call' = [sim_type |-> sim_type, event |-> e,
                       outcome |-> IF r.raised = "none" THEN st ELSE r.raised,
                       queried |-> r.queried]
    /\ UNCHANGED <<proc, cfg, pc, nsub, lis, todo, pollStart, idle, crashes,
                   interpolated, proj>>

----------------------------------------------------------------------------
(* Job-submitting calls *)

\* SalvusFlow.submit_job: launch, then record name and submitted.
submit_job(e, sim_type) ==
    << Eff("launch", sim_type, e, TRUE),
       Eff("name_launched", sim_type, e, TRUE),
       Eff("submitted", sim_type, e, TRUE) >>

\* MultiMeshComponent.interpolate_to_simulation_mesh, remote mode.
interpolate_to_simulation_mesh(e) ==
    << Eff("name_new", "model_interp", e, TRUE),
       Eff("launch", "model_interp", e, TRUE),
       Eff("submitted", "model_interp", e, TRUE) >>

\* MultiMeshComponent.interpolate_gradient_to_model, remote mode.
interpolate_gradient_to_model(e) ==
    << Eff("name_new", "gradient_interp", e, TRUE),
       Eff("launch", "gradient_interp", e, TRUE),
       Eff("submitted", "gradient_interp", e, TRUE) >>

\* A variant that does not look at the submitted flag of model_interp.
interpolate_model_unguarded(s, e) ==
    IF s.job["forward"][e].submitted THEN << >>
    ELSE IF s.job["model_interp"][e].retrieved THEN << >>
    ELSE interpolate_to_simulation_mesh(e)

\* ForwardHelper.__interpolate_model(event, mode="remote")
interpolate_model(s, e) ==
    IF s.job["forward"][e].submitted THEN << >>
    ELSE IF s.job["model_interp"][e].retrieved THEN << >>
    ELSE IF s.job["model_interp"][e].submitted THEN << >>
    ELSE interpolate_to_simulation_mesh(e)

\* A variant that submits without looking at the submitted flag.
run_forward_simulation_unguarded(s, e) == submit_job(e, "forward")

\* ForwardHelper.__run_forward_simulation
run_forward_simulation(s, e) ==
    IF s.job["forward"][e].submitted THEN << >> ELSE submit_job(e, "forward")

\* ForwardHelper._launch_hpc_processing_job
launch_hpc_processing_job(s, e) ==
    IF s.job["hpc_processing"][e].submitted THEN << >>
    ELSE << Eff("name_new", "hpc_processing", e, TRUE),
            Eff("launch", "hpc_processing", e, TRUE),
            Eff("submitted", "hpc_processing", e, TRUE) >>

\* ForwardHelper.__dispatch_adjoint_simulation
forward_dispatch_adjoint_simulation(s, e) ==
    IF s.job["adjoint"][e].submitted THEN << >>
    ELSE submit_job(e, "adjoint") \o << Eff("submitted", "adjoint", e, TRUE) >>

\* AdjointHelper.__dispatch_adjoint_simulation
adjoint_dispatch_adjoint_simulation(s, e) ==
    IF s.job["adjoint"][e].submitted THEN << >> ELSE submit_job(e, "adjoint")

\* AdjointHelper.__dispatch_raw_gradient_interpolation
dispatch_raw_gradient_interpolation(s, e) ==
    IF s.job["gradient_interp"][e].submitted THEN << >>
    ELSE interpolate_gradient_to_model(e)

----------------------------------------------------------------------------
(* RemoteJobListener *)

\* The lists of a new listener.  seen is history: the events the listener
\* has put on events_retrieved_now in the round under way.
EmptyListener ==
    [already |-> {}, now |-> {}, repost |-> {}, notsub |-> [e \in Events |-> 0],
     seen |-> {}]

NoSnap == [taken |-> FALSE]
Snap(s) == [taken |-> TRUE, job |-> s.job, nsub |-> s.nsub]

\* A variant that raises on a status name it does not recognise.
check_status_of_job_strict(reposts, status) ==
    IF status \in {"unknown", "failed"}
    THEN IF reposts >= max_reposts
         THEN [raised |-> TRUE, to_repost |-> FALSE, reposts |-> reposts, status |-> status]
         ELSE [raised |-> FALSE, to_repost |-> TRUE, reposts |-> reposts + 1, status |-> status]
    ELSE IF status \in {"pending", "running", "cancelled", "finished"}
    THEN [raised |-> FALSE, to_repost |-> FALSE, reposts |-> reposts, status |-> status]
    ELSE [raised |-> TRUE, to_repost |-> FALSE, reposts |-> reposts, status |-> status]

\* A variant that compares with > and so allows one more repost.
check_status_of_job_late(reposts, status) ==
    IF status \in {"unknown", "failed"}
    THEN IF reposts > max_reposts
         THEN [raised |-> TRUE, to_repost |-> FALSE, reposts |-> reposts, status |-> status]
         ELSE [raised |-> FALSE, to_repost |-> TRUE, reposts |-> reposts + 1, status |-> status]
    ELSE [raised |-> FALSE, to_repost |-> FALSE, reposts |-> reposts, status |-> status]

\* RemoteJobListener.__check_status_of_job: the outcome of one status query.
check_status_of_job(reposts, status) ==
    IF status \in {"unknown", "failed"}
    THEN IF reposts >= max_reposts
         THEN [raised |-> TRUE, to_repost |-> FALSE, reposts |-> reposts, status |-> status]
         ELSE [raised |-> FALSE, to_repost |-> TRUE, reposts |-> reposts + 1, status |-> status]
    ELSE [raised |-> FALSE, to_repost |-> FALSE, reposts |-> reposts, status |-> status]

\* RemoteJobListener.__monitor_jobs, the branch for a job reported finished:
\* the job records after the listener has noted event e.
monitor_finished(j, job_type, e) ==
    IF job_type = "gradient_interp"
    THEN [j EXCEPT !["gradient_interp"][e].retrieved = TRUE]
    ELSE j

\* The statuses the scheduler may answer for the job of an event in a stage.
\* In the terminal environment every job has ended when it is polled.
\* In the odd environment a job that is not finished has a status name the
\* program does not know.  In the scenario the forward jobs of events 1, 2, 3 are reported finished,
\* failed, pending in the first round, and finished from then on; no other
\* job fails.
EnvStatuses(stage, e) ==
    IF cfg.env = "benign" THEN {"pending", "running", "finished"}
    ELSE IF cfg.env = "odd" THEN {"other", "finished"}
    ELSE IF cfg.env = "terminal" THEN {"finished", "failed", "unknown", "cancelled"}
    ELSE IF cfg.env = "scenario"
    THEN IF stage # "forward" THEN {"pending", "running", "finished"}
         ELSE IF e = 1 THEN {"finished"}
         ELSE IF e = 2
         THEN (IF job["forward"][2].reposts = 0 THEN {"failed"} ELSE {"finished"})
         ELSE (IF job["forward"][1].retrieved THEN {"finished"} ELSE {"pending"})
    ELSE IF cfg.env = stage THEN {"failed", "unknown"}
    ELSE Statuses

\* The listener polled at each monitoring position.
MonOf ==
    [rf_mon_for |-> "forward", rf_mon_hpc |-> "hpc_processing",
     df_mon |-> "model_interp", pg_mon_adj |-> "adjoint",
     pg_mon_gi |-> "gradient_interp"]

InMon == pc \in DOMAIN MonOf

\* Where the orchestrator continues after monitor_jobs, and over which list.
AfterMon ==
    [rf_mon_for |-> "rf_already", rf_mon_hpc |-> "rf_hpc_now",
     df_mon |-> "df_now", pg_mon_adj |-> "pg_adj_now", pg_mon_gi |-> "pg_gi_now"]

Min(a, b) == IF a < b THEN a ELSE b

\* A variant that trusts the listener's events_already_retrieved only.
record_retrieved_cached(job_type, e) == e \in lis[job_type].already

\* __monitor_jobs and __monitor_job_array: job_dict[event]["retrieved"].
record_retrieved(job_type, e) == job[job_type][e].retrieved

\* __monitor_jobs, one event of events_left whose record says retrieved.
ExamineRetrieved(e) ==
    /\ InMon
    /\ e \in todo
    /\ record_retrieved(MonOf[pc], e)
    /\ lis' = [lis EXCEPT ![MonOf[pc]].already = @ \cup {e}]
    /\ todo' = todo \ {e}
    /\ idle' = FALSE
    /\ UNCHANGED <<proc, cfg, pc, job, nsub, pollStart, crashes, call, interpolated, proj>>

\* __monitor_jobs, one event whose job was never submitted: no status query.
ExamineUnsubmitted(e) ==
    /\ InMon
    /\ e \in todo
    /\ ~record_retrieved(MonOf[pc], e)
    /\ ~job[MonOf[pc]][e].submitted
    /\ lis' = [lis EXCEPT ![MonOf[pc]].notsub[e] = Min(@ + 1, MaxNotSubmitted)]
    /\ todo' = todo \ {e}
    /\ idle' = FALSE
    /\ UNCHANGED <<proc, cfg, pc, job, nsub, pollStart, crashes, call, interpolated, proj>>

\* A variant that takes a running job for a finished one.
is_finished_or_running(status) == status \in {"finished", "running"}

\* __monitor_jobs, the test on the status __check_status_of_job returned.
is_finished(status) == status = "finished"

\* __monitor_jobs, one event whose job is outstanding: the status query.
Poll(e, st) ==
    /\ InMon
    /\ e \in todo
    /\ ~record_retrieved(MonOf[pc], e)
    /\ job[MonOf[pc]][e].submitted
    /\ st \in EnvStatuses(MonOf[pc], e)
    /\ LET l == MonOf[pc]
           r == check_status_of_job(job[l][e].reposts, st)
       IN  IF r.raised
           THEN /\ pc' = "raised"
                /\ UNCHANGED <<job, lis, todo>>
           ELSE /\ pc' = pc
                /\ todo' = todo \ {e}
                /\ job' = IF is_finished(r.status)
                          THEN monitor_finished(job, l, e)
                          ELSE [job EXCEPT ![l][e].reposts = r.reposts]
                /\ lis' = [lis EXCEPT
                             ![l].repost = IF r.to_repost THEN @ \cup {e} ELSE @,
                             ![l].now = IF is_finished(r.status) THEN @ \cup {e} ELSE @,
                             ![l].seen = IF is_finished(r.status) THEN @ \cup {e} ELSE @]
    /\ idle' = FALSE
    /\ UNCHANGED <<proc, cfg, nsub, pollStart, crashes, call, interpolated, proj>>

\* The orders in which a poll may examine the events of events_left, a list
\* made from a set.
Orders(S) ==
    {o \in [1..Cardinality(S) -> S] : \A a, b \in DOMAIN o : o[a] = o[b] => a = b}

RECURSIVE monitor_jobs(_, _, _, _)
\* __monitor_jobs as a function: the job records after the events of order
\* have been examined one after the other with the scheduler answering
\* answers[e] for event e, and whether the poll raised.
monitor_jobs(j, job_type, order, answers) ==
    IF order = << >> THEN [raised |-> FALSE, job |-> j]
    ELSE LET e == Head(order)
             r == check_status_of_job(j[job_type][e].reposts, answers[e])
         IN  IF j[job_type][e].retrieved \/ ~j[job_type][e].submitted
             THEN monitor_jobs(j, job_type, Tail(order), answers)
             ELSE IF r.raised THEN [raised |-> TRUE, job |-> j]
             ELSE monitor_jobs(IF is_finished(r.status)
                               THEN monitor_finished(j, job_type, e)
                               ELSE [j EXCEPT ![job_type][e].reposts = r.reposts],
                               job_type, Tail(order), answers)

\* The loop that follows each loop of an orchestrator, and the listener
\* whose list it visits: events_retrieved_now, then to_repost (in
\* __retrieve_forward_simulations events_already_retrieved comes first).
NextLoopOf ==
    [rf_already |-> [to |-> "rf_now", l |-> "forward"],
     rf_now |-> [to |-> "rf_repost", l |-> "forward"],
     rf_hpc_now |-> [to |-> "rf_hpc_repost", l |-> "hpc_processing"],
     df_now |-> [to |-> "df_repost", l |-> "model_interp"],
     pg_adj_now |-> [to |-> "pg_adj_repost", l |-> "adjoint"],
     pg_gi_now |-> [to |-> "pg_gi_repost", l |-> "gradient_interp"]]

RECURSIVE Skip(_, _)
\* A loop with nothing left to visit is over: the position and the list of
\* the next loop that has events to visit, or of the last loop.
Skip(p, td) ==
    IF td = {} /\ p \in DOMAIN NextLoopOf
    THEN Skip(NextLoopOf[p].to,
              IF p = "rf_already" THEN lis["forward"].now
              ELSE lis[NextLoopOf[p].l].repost)
    ELSE [pc |-> p, todo |-> td]

\* End of __monitor_jobs (update_iteration_toml); the orchestrator goes on
\* with the loop over the listener's first list.
EndMonitor ==
    /\ InMon
    /\ todo = {}
    /\ LET n == Skip(AfterMon[pc],
                     IF pc = "rf_mon_for"
                     THEN (IF cfg.hpc /\ ~cfg.validation
                           THEN lis["forward"].already ELSE {})
                     ELSE lis[MonOf[pc]].now)
       IN  pc' = n.pc /\ todo' = n.todo
    /\ pollStart' = NoSnap
    /\ idle' = FALSE
    /\ UNCHANGED <<proc, cfg, job, nsub, lis, crashes, call, interpolated, proj>>

----------------------------------------------------------------------------
(* RemoteJobListener, array jobs (job type smoothing, smooth_individual) *)

\* What the scheduler may answer for an array job: one status per sub-task.
TaskStatuses == [Tasks -> Statuses]

RECURSIVE scan_status(_, _, _)
\* __check_status_of_job_array, the loop over the statuses of the sub-tasks
\* from sub-task k on.  acc holds the counter i, the local reposts, the
\* number of appends to to_repost, the number of finished sub-tasks, and
\* whether the loop raised.  Only a failed or unknown sub-task met while
\* i == 0 is acted on: the event is appended to to_repost, reposts is
\* incremented and then compared with max_reposts.
scan_status(status, k, acc) ==
    IF k > NumTasks \/ acc.raised THEN acc
    ELSE IF status[k] = "finished"
    THEN scan_status(status, k + 1, [acc EXCEPT !.finished = @ + 1])
    ELSE IF status[k] \in {"failed", "unknown"} /\ acc.i = 0
    THEN IF acc.reposts + 1 >= max_reposts
         THEN [acc EXCEPT !.appends = @ + 1, !.raised = TRUE]
         ELSE scan_status(status, k + 1,
                          [acc EXCEPT !.appends = @ + 1, !.reposts = @ + 1, !.i = 1])
    ELSE scan_status(status, k + 1, acc)

\* A variant that acts on every failed or unknown sub-task.
check_status_of_job_array_per_task(reposts, status) ==
    LET n == Cardinality({k \in DOMAIN status : status[k] \in {"failed", "unknown"}})
        all_finished == \A k \in DOMAIN status : status[k] = "finished"
    IN  IF reposts + n >= max_reposts /\ n > 0
        THEN [raised |-> TRUE, to_repost |-> TRUE, appends |-> n,
              reposts |-> reposts, status |-> "None"]
        ELSE [raised |-> FALSE, to_repost |-> n > 0, appends |-> n,
              reposts |-> reposts + n,
              status |-> IF all_finished THEN "finished" ELSE "None"]

\* RemoteJobListener.__check_status_of_job_array: the outcome of one status
\* query.  The new count is written when the query does not raise; the
\* result is "finished" when every sub-task is, and None otherwise.
check_status_of_job_array(reposts, status) ==
    LET a == scan_status(status, 1,
                         [i |-> 0, reposts |-> reposts, appends |-> 0,
                          finished |-> 0, raised |-> FALSE])
    IN  [raised |-> a.raised, to_repost |-> a.appends > 0, appends |-> a.appends,
         reposts |-> a.reposts,
         status |-> IF ~a.raised /\ a.finished = NumTasks THEN "finished" ELSE "None"]

\* The listener keeps events on its lists; an event stands for every
\* sub-task of its array job.
TasksRetrieved(l, e) ==
    IF e \in l["smoothing"].now \cup l["smoothing"].already THEN Tasks ELSE {}

TasksToRepost(l, e) ==
    IF e \in l["smoothing"].repost THEN Tasks ELSE {}

\* __monitor_job_array, one event of events_left whose record says retrieved.
ArrayExamineRetrieved(e) ==
    /\ pc = "sm_mon"
    /\ e \in todo
    /\ record_retrieved("smoothing", e)
    /\ lis' = [lis EXCEPT !["smoothing"].already = @ \cup {e}]
    /\ todo' = todo \ {e}
    /\ idle' = FALSE
    /\ UNCHANGED <<proc, cfg, pc, job, nsub, pollStart, crashes, call, interpolated, proj>>

\* __monitor_job_array, one event whose record does not say retrieved: the
\* status query of its array job (the submitted flag is not looked at).
PollArray(e, sts) ==
    /\ pc = "sm_mon"
    /\ e \in todo
    /\ ~record_retrieved("smoothing", e)
    /\ LET r == check_status_of_job_array(job["smoothing"][e].reposts, sts)
       IN  /\ lis' = [lis EXCEPT
                        !["smoothing"].repost = IF r.to_repost THEN @ \cup {e} ELSE @,
                        !["smoothing"].now = IF r.status = "finished" THEN @ \cup {e} ELSE @]
           /\ job' = [job EXCEPT !["smoothing"][e].reposts = r.reposts]
           /\ IF r.raised
              THEN pc' = "raised" /\ todo' = todo
              ELSE pc' = pc /\ todo' = todo \ {e}
    /\ idle' = FALSE
    /\ UNCHANGED <<proc, cfg, nsub, pollStart, crashes, call, interpolated, proj>>

\* End of __monitor_job_array (update_iteration_toml and the report).
ArrayEndMonitor ==
    /\ pc = "sm_mon"
    /\ todo = {}
    /\ pc' = "done"
    /\ pollStart' = NoSnap
    /\ idle' = FALSE
    /\ UNCHANGED <<proc, cfg, job, nsub, lis, todo, crashes, call, interpolated, proj>>

----------------------------------------------------------------------------
(* The orchestrators' per-event loop bodies, as effect sequences *)

St == [job |-> job, nsub |-> nsub]

\* __retrieve_forward_simulations, loop over for_job_listener.events_already_retrieved
rf_already_ops(s, e) ==
    IF cfg.hpc /\ ~cfg.validation THEN launch_hpc_processing_job(s, e) ELSE << >>

\* A variant that dispatches the adjoint simulation of an event only once
\* the forward jobs of all the other events are retrieved.
rf_now_ops_barrier(s, e) ==
    LET o1 == IF cfg.hpc /\ ~cfg.validation
              THEN launch_hpc_processing_job(s, e) ELSE << >>
        o2 == o1 \o << Eff("retrieved", "forward", e, TRUE) >>
        o3 == IF cfg.adjoint /\ ~cfg.hpc
                  /\ \A f \in Events \ {e} : s.job["forward"][f].retrieved
              THEN forward_dispatch_adjoint_simulation(After(s, o2), e) ELSE << >>
    IN  o2 \o o3

\* A variant that does not write forward retrieved.
rf_now_ops_unmarked(s, e) ==
    LET o1 == IF cfg.hpc /\ ~cfg.validation
              THEN launch_hpc_processing_job(s, e) ELSE << >>
        o3 == IF cfg.adjoint /\ ~cfg.hpc
              THEN forward_dispatch_adjoint_simulation(After(s, o1), e) ELSE << >>
    IN  o1 \o o3

\* __retrieve_forward_simulations, loop over for_job_listener.events_retrieved_now
rf_now_ops(s, e) ==
    LET o1 == IF cfg.hpc /\ ~cfg.validation
              THEN launch_hpc_processing_job(s, e) ELSE << >>
        o2 == o1 \o << Eff("retrieved", "forward", e, TRUE) >>
        o3 == IF cfg.adjoint /\ ~cfg.hpc
              THEN forward_dispatch_adjoint_simulation(After(s, o2), e) ELSE << >>
    IN  o2 \o o3

\* A variant that resets submitted on the model_interp record.
rf_repost_ops_wrong_record(s, e) ==
    LET o1 == << Eff("submitted", "model_interp", e, FALSE) >>
    IN  o1 \o run_forward_simulation(After(s, o1), e)

\* __retrieve_forward_simulations, loop over for_job_listener.to_repost
rf_repost_ops(s, e) ==
    LET o1 == << Eff("submitted", "forward", e, FALSE) >>
    IN  o1 \o run_forward_simulation(After(s, o1), e)

\* __retrieve_forward_simulations, loop over hpc_proc_job_listener.events_retrieved_now
rf_hpc_now_ops(s, e) ==
    LET o1 == << Eff("retrieved", "hpc_processing", e, TRUE) >>
    IN  o1 \o (IF cfg.adjoint /\ cfg.hpc
               THEN forward_dispatch_adjoint_simulation(After(s, o1), e) ELSE << >>)

\* __retrieve_forward_simulations, loop over hpc_proc_job_listener.to_repost
rf_hpc_repost_ops(s, e) ==
    LET o1 == << Eff("submitted", "hpc_processing", e, FALSE) >>
    IN  o1 \o launch_hpc_processing_job(After(s, o1), e)

\* __dispatch_forwards_remote_interpolations and its validation twin:
\* the first loop over self.events
df_interp_ops(s, e) == interpolate_model(s, e)

\* ... loop over int_job_listener.events_retrieved_now
df_now_ops(s, e) ==
    run_forward_simulation(s, e) \o << Eff("retrieved", "model_interp", e, TRUE) >>

\* A variant that dispatches again without resetting the submitted flag.
df_repost_ops_no_reset(s, e) == interpolate_model(s, e)

\* ... loop over int_job_listener.to_repost
df_repost_ops(s, e) ==
    LET o1 == << Eff("submitted", "model_interp", e, FALSE) >>
    IN  o1 \o interpolate_model(After(s, o1), e)

\* __dispatch_remaining_forwards, loop over self.events: TRUE when the body
\* reaches events_left.append(), which raises TypeError.
df_remaining_raises(s, e) ==
    /\ ~s.job["forward"][e].submitted
    /\ ~s.job["model_interp"][e].retrieved
    /\ ~s.job["model_interp"][e].submitted

df_remaining_ops(s, e) ==
    IF ~s.job["forward"][e].submitted /\ s.job["model_interp"][e].retrieved
    THEN run_forward_simulation(s, e)
    ELSE << >>

\* __process_gradients, loop over adj_job_listener.events_retrieved_now
pg_adj_now_ops(s, e) ==
    LET o1 == << Eff("retrieved", "adjoint", e, TRUE) >>
    IN  o1 \o (IF cfg.interpolate
               THEN dispatch_raw_gradient_interpolation(After(s, o1), e) ELSE << >>)

\* __process_gradients, loop over adj_job_listener.to_repost
pg_adj_repost_ops(s, e) ==
    LET o1 == << Eff("submitted", "adjoint", e, FALSE) >>
    IN  o1 \o adjoint_dispatch_adjoint_simulation(After(s, o1), e)

\* __process_gradients, loop over interp_job_listener.events_retrieved_now
pg_gi_now_ops(s, e) == << Eff("retrieved", "gradient_interp", e, TRUE) >>

\* __process_gradients, loop over interp_job_listener.to_repost
pg_gi_repost_ops(s, e) ==
    LET o1 == << Eff("submitted", "gradient_interp", e, FALSE) >>
    IN  o1 \o dispatch_raw_gradient_interpolation(After(s, o1), e)

\* The loop body that runs at each loop position.
LoopPcs ==
    {"rf_already", "rf_now", "rf_repost", "rf_hpc_now", "rf_hpc_repost",
     "df_interp", "df_now", "df_repost", "df_remaining",
     "pg_adj_now", "pg_adj_repost", "pg_gi_now", "pg_gi_repost"}

BodyOps(p, s, e) ==
    CASE p = "rf_already" -> rf_already_ops(s, e)
      [] p = "rf_now" -> rf_now_ops(s, e)
      [] p = "rf_repost" -> rf_repost_ops(s, e)
      [] p = "rf_hpc_now" -> rf_hpc_now_ops(s, e)
      [] p = "rf_hpc_repost" -> rf_hpc_repost_ops(s, e)
      [] p = "df_interp" -> df_interp_ops(s, e)
      [] p = "df_now" -> df_now_ops(s, e)
      [] p = "df_repost" -> df_repost_ops(s, e)
      [] p = "df_remaining" -> df_remaining_ops(s, e)
      [] p = "pg_adj_now" -> pg_adj_now_ops(s, e)
      [] p = "pg_adj_repost" -> pg_adj_repost_ops(s, e)
      [] p = "pg_gi_now" -> pg_gi_now_ops(s, e)
      [] p = "pg_gi_repost" -> pg_gi_repost_ops(s, e)

\* One pass of the loop at position p for event e, run to its end.
Body(p, e) ==
    /\ pc = p
    /\ e \in todo
    /\ LET s == After(St, BodyOps(p, St, e))
       IN  job' = s.job /\ nsub' = s.nsub
    /\ LET n == Skip(p, todo \ {e})
       IN  pc' = n.pc /\ todo' = n.todo
    /\ idle' = FALSE
    /\ UNCHANGED <<proc, cfg, lis, pollStart, crashes, call, interpolated, proj>>

RF_Already(e) == Body("rf_already", e)
RF_Now(e) == Body("rf_now", e)
RF_Repost(e) == Body("rf_repost", e)
RF_HpcNow(e) == Body("rf_hpc_now", e)
RF_HpcRepost(e) == Body("rf_hpc_repost", e)
DF_Interp(e) == Body("df_interp", e)
DF_Now(e) == Body("df_now", e)
DF_Repost(e) == Body("df_repost", e)
PG_AdjNow(e) == Body("pg_adj_now", e)
PG_AdjRepost(e) == Body("pg_adj_repost", e)
PG_GiNow(e) == Body("pg_gi_now", e)
PG_GiRepost(e) == Body("pg_gi_repost", e)

\* __dispatch_remaining_forwards, one event of self.events
DF_Remaining(e) ==
    /\ pc = "df_remaining"
    /\ e \in todo
    /\ IF df_remaining_raises(St, e)
       THEN /\ pc' = "type_error"
            /\ UNCHANGED <<job, nsub, todo>>
       ELSE /\ LET s == After(St, df_remaining_ops(St, e))
               IN  job' = s.job /\ nsub' = s.nsub
            /\ todo' = todo \ {e}
            /\ pc' = pc
    /\ idle' = FALSE
    /\ UNCHANGED <<proc, cfg, lis, pollStart, crashes, call, interpolated, proj>>

----------------------------------------------------------------------------
(* Control flow of the orchestrators between their loops *)

Terminal == {"done", "raised", "type_error"}

\* monitor_jobs is called on the listener polled at position p.
EnterMon(p, newlis) ==
    /\ pc' = p
    /\ todo' = Events \ newlis[MonOf[p]].already
    /\ pollStart' = Snap(St)

Return ==
    /\ pc' = "done"
    /\ todo' = {}
    /\ pollStart' = NoSnap

\* events_retrieved_now = [] and to_repost = [] on the listener of a type.
ResetRound(l, job_type) ==
    [l EXCEPT ![job_type].now = {}, ![job_type].repost = {}]

\* The end of a round of an orchestrator: the lists of its first listener
\* are emptied, and a new round begins for both listeners it polls.
EndRound(l, job_type, other) ==
    [ResetRound(l, job_type) EXCEPT ![job_type].seen = {}, ![other].seen = {}]

\* len(events_retrieved_now) + len(events_already_retrieved) == len(events)
AllRetrieved(job_type) ==
    Cardinality(lis[job_type].now) + Cardinality(lis[job_type].already)
        = Cardinality(Events)

\* __retrieve_forward_simulations after the loop over to_repost: the two
\* break tests, then the hpc_processing block or the end of the round.
RF_Check ==
    /\ pc = "rf_repost"
    /\ todo = {}
    /\ IF AllRetrieved("forward") /\ ~cfg.hpc THEN Return
       ELSE IF AllRetrieved("forward") /\ cfg.validation THEN Return
       ELSE IF cfg.hpc /\ cfg.adjoint /\ ~cfg.validation
            THEN EnterMon("rf_mon_hpc", lis)
            ELSE pc' = "rf_sleep" /\ UNCHANGED <<todo, pollStart>>
    /\ idle' = FALSE
    /\ UNCHANGED <<proc, cfg, job, nsub, lis, crashes, call, interpolated, proj>>

\* ... after the loop over hpc_proc_job_listener.to_repost: the third break
\* test, then the listener's lists are emptied.
RF_HpcCheck ==
    /\ pc = "rf_hpc_repost"
    /\ todo = {}
    /\ IF AllRetrieved("hpc_processing")
       THEN Return /\ lis' = lis
       ELSE /\ pc' = "rf_sleep"
            /\ lis' = ResetRound(lis, "hpc_processing")
            /\ UNCHANGED <<todo, pollStart>>
    /\ idle' = FALSE
    /\ UNCHANGED <<proc, cfg, job, nsub, crashes, call, interpolated, proj>>

\* ... end of the round: the idle wait, the lists emptied, the next poll.
RF_Sleep ==
    /\ pc = "rf_sleep"
    /\ idle' = (lis["forward"].now = {} /\ lis["hpc_processing"].now = {})
    /\ lis' = EndRound(ResetRound(lis, "hpc_processing"), "forward", "hpc_processing")
    /\ EnterMon("rf_mon_for", lis')
    /\ UNCHANGED <<proc, cfg, job, nsub, crashes, call, interpolated, proj>>

\* __dispatch_forwards_remote_interpolations: every interpolation is
\* dispatched, the listener is created and polled.
DF_Listen ==
    /\ pc = "df_interp"
    /\ todo = {}
    /\ EnterMon("df_mon", lis)
    /\ idle' = FALSE
    /\ UNCHANGED <<proc, cfg, job, nsub, lis, crashes, call, interpolated, proj>>

\* assert_all_simulations_dispatched
all_simulations_dispatched(j) == \A e \in Events : j["forward"][e].submitted

\* ... after the loop over to_repost: the break test; past the loop the
\* regular dispatch looks for forwards that were not dispatched, the
\* validation dispatch returns.
DF_Check ==
    /\ pc = "df_repost"
    /\ todo = {}
    /\ IF AllRetrieved("model_interp")
       THEN IF cfg.validation \/ all_simulations_dispatched(job)
            THEN Return
            ELSE pc' = "df_remaining" /\ todo' = Events /\ pollStart' = NoSnap
       ELSE pc' = "df_sleep" /\ UNCHANGED <<todo, pollStart>>
    /\ idle' = FALSE
    /\ UNCHANGED <<proc, cfg, job, nsub, lis, crashes, call, interpolated, proj>>

DF_Sleep ==
    /\ pc = "df_sleep"
    /\ idle' = (lis["model_interp"].now = {})
    /\ lis' = EndRound(lis, "model_interp", "model_interp")
    /\ EnterMon("df_mon", lis')
    /\ UNCHANGED <<proc, cfg, job, nsub, crashes, call, interpolated, proj>>

\* __dispatch_remaining_forwards: events_left is empty, return.
DF_RemainingDone ==
    /\ pc = "df_remaining"
    /\ todo = {}
    /\ Return
    /\ idle' = FALSE
    /\ UNCHANGED <<proc, cfg, job, nsub, lis, crashes, call, interpolated, proj>>

\* __process_gradients after the loop over adj_job_listener.to_repost.
PG_Interp ==
    /\ pc = "pg_adj_repost"
    /\ todo = {}
    /\ IF cfg.interpolate
       THEN EnterMon("pg_mon_gi", lis)
       ELSE pc' = "pg_check" /\ UNCHANGED <<todo, pollStart>>
    /\ idle' = FALSE
    /\ UNCHANGED <<proc, cfg, job, nsub, lis, crashes, call, interpolated, proj>>

\* ... after the loop over interp_job_listener.to_repost: its lists are emptied.
PG_InterpDone ==
    /\ pc = "pg_gi_repost"
    /\ todo = {}
    /\ pc' = "pg_check"
    /\ lis' = ResetRound(lis, "gradient_interp")
    /\ idle' = FALSE
    /\ UNCHANGED <<proc, cfg, job, nsub, todo, pollStart, crashes, call, interpolated, proj>>

\* ... the break test, and the end of the round.
PG_Check ==
    /\ pc = "pg_check"
    /\ IF AllRetrieved("adjoint")
       THEN Return /\ idle' = FALSE /\ lis' = lis
       ELSE /\ idle' = (lis["adjoint"].now = {} /\ lis["gradient_interp"].now = {})
            /\ lis' = EndRound(lis, "adjoint", "gradient_interp")
            /\ EnterMon("pg_mon_adj", lis')
    /\ UNCHANGED <<proc, cfg, job, nsub, crashes, call, interpolated, proj>>

----------------------------------------------------------------------------
(* RemoteJobListener.monitor_jobs *)

\* The job types a listener may be created with.
ListenerTypes == Stages \cup {"smoothing", "prepare_forward", "data_processing"}

\* The monitoring position of the listener of each job type.
MonPcOf ==
    [forward |-> "rf_mon_for", hpc_processing |-> "rf_mon_hpc",
     model_interp |-> "df_mon", adjoint |-> "pg_mon_adj",
     gradient_interp |-> "pg_mon_gi"]

\* A variant that takes every other job type for an array job.
monitor_jobs_branch_lenient(job_type) ==
    IF job_type \in {"forward", "adjoint", "model_interp", "gradient_interp",
                     "hpc_processing"}
    THEN "jobs"
    ELSE "array"

\* monitor_jobs, the choice made on self.job_type.
monitor_jobs_branch(job_type) ==
    IF job_type \in {"forward", "adjoint", "model_interp", "gradient_interp",
                     "hpc_processing"}
    THEN "jobs"
    ELSE IF job_type = "smoothing" THEN "array"
    ELSE "raise"

\* RemoteJobListener.monitor_jobs on a new listener of type cfg.job_type.
MonitorJobs ==
    /\ pc = "monitor_jobs"
    /\ LET b == monitor_jobs_branch(cfg.job_type)
       IN  IF b = "jobs" THEN EnterMon(MonPcOf[cfg.job_type], lis)
           ELSE IF b = "array"
           THEN pc' = "sm_mon" /\ todo' = Events /\ pollStart' = Snap(St)
           ELSE pc' = "not_recognised" /\ UNCHANGED <<todo, pollStart>>
    /\ idle' = FALSE
    /\ UNCHANGED <<proc, cfg, job, nsub, lis, crashes, call, interpolated, proj>>

----------------------------------------------------------------------------
(* dispatch_forward_simulations *)

\* The values of project.meshes and project.interpolation_mode.
Meshes == {"multi-mesh", "mono-mesh"}
InterpolationModes == {"local", "remote"}

\* ForwardHelper.dispatch_forward_simulations: the remote-interpolation
\* dispatch (regular or validation) or the dispatch event by event.
DispatchForwardSimulations ==
    /\ pc = "dfs"
    /\ IF cfg.meshes = "multi-mesh" /\ cfg.interpolation_mode = "remote"
       THEN pc' = "df_interp"
       ELSE pc' = "dn"
    /\ todo' = Events
    /\ idle' = FALSE
    /\ UNCHANGED <<proc, cfg, job, nsub, lis, pollStart, crashes, call, interpolated, proj>>

\* The mesh test of __dispatch_forwards_normal and of its validation twin.
dispatch_normal_interpolates ==
    IF cfg.validation THEN cfg.meshes = "multi-mesh" ELSE cfg.meshes = "multi_mesh"

\* ForwardHelper.__interpolate_model(event, mode="local"): whether the model
\* is interpolated to the mesh of the event.
interpolate_model_local(s, e) ==
    /\ ~s.job["forward"][e].submitted
    /\ ~s.job["model_interp"][e].retrieved

\* __dispatch_forwards_normal and __dispatch_validation_forwards_normal, one
\* event of the loop.  The validation twin calls __interpolate_model without
\* its mode argument.
DispatchNormal(e) ==
    /\ pc = "dn"
    /\ e \in todo
    /\ IF dispatch_normal_interpolates /\ cfg.validation
       THEN /\ pc' = "type_error"
            /\ UNCHANGED <<job, nsub, todo, interpolated>>
       ELSE /\ interpolated' = IF dispatch_normal_interpolates
                                  /\ interpolate_model_local(St, e)
                               THEN interpolated \cup {e} ELSE interpolated
            /\ LET s == After(St, run_forward_simulation(St, e))
               IN  job' = s.job /\ nsub' = s.nsub
            /\ todo' = todo \ {e}
            /\ pc' = pc
    /\ idle' = FALSE
    /\ UNCHANGED <<proc, cfg, lis, pollStart, crashes, call, proj>>

\* ... the loop over the events is over.
DispatchNormalDone ==
    /\ pc = "dn"
    /\ todo = {}
    /\ Return
    /\ idle' = FALSE
    /\ UNCHANGED <<proc, cfg, job, nsub, lis, crashes, call, interpolated, proj>>

----------------------------------------------------------------------------
(* Iterations: Problem, OptsonLink and the remote deletions of SalvusFlow *)

Iterations == 0..MaxIteration

\* config.monitoring.validation_dataset; the other events of the event
\* database are 1..NumEvents.
validation_dataset == {NumEvents + 1}

\* Project.is_validation_event
is_validation_event(e) == e \in validation_dataset

\* The sim_types _get_job_name accepts, in the order of their stages.
DeleteChain ==
    << "prepare_forward", "forward", "hpc_processing", "adjoint", "gradient_interp" >>

StageIdx(sim_type) == CHOOSE i \in DOMAIN DeleteChain : DeleteChain[i] = sim_type

\* An iteration without a manifest, and the manifest of a new iteration:
\* its events and how many stages of DeleteChain have had their jobs
\* submitted (the records of the later stages have the empty name).
NoManifest == [exists |-> FALSE]
NewManifest(events, by) ==
    [exists |-> TRUE, events |-> events, progress |-> 0, by |-> by]

\* The empty job name of a record that was never submitted.
NoName == << >>

\* A variant that tests iteration_number % val_itv.
time_for_validation_plain(val_itv, iteration_number) ==
    IF val_itv = 0 THEN FALSE
    ELSE iteration_number % val_itv = 0

\* Problem._time_for_validation
time_for_validation(val_itv, iteration_number) ==
    IF val_itv = 0 THEN FALSE
    ELSE IF iteration_number = 0 THEN TRUE
    ELSE (iteration_number + 1) % val_itv = 0

\* Problem._get_events_for_iteration; batch is the set of events of
\* model.batch (every event that is not a validation event when it is None).
get_events_for_iteration(batch, iteration_number) ==
    IF time_for_validation(cfg.val_itv, iteration_number)
    THEN batch \cup validation_dataset
    ELSE batch

\* Project.set_iteration_attributes: the records of the iteration are loaded
\* and it becomes the current one.
set_iteration_attributes(p, iteration) == [p EXCEPT !.current_iteration = iteration]

\* Project.create_iteration_toml: a manifest of new records.
create_iteration_toml(p, iteration, events, by) ==
    [p EXCEPT !.tomls[iteration] = NewManifest(events, by),
              !.current_iteration = iteration]

\* SalvusFlow._get_job_name: the recorded name of the job.
get_job_name(p, event, sim_type, iteration) ==
    IF StageIdx(sim_type) <= p.tomls[iteration].progress
    THEN << iteration, sim_type, event >>
    ELSE NoName

\* SalvusFlow._delete_remote_job; the run directory of the job is taken to
\* exist, ssh_ok says whether the remote command succeeds.
delete_remote_job(p, job_name, ssh_ok) ==
    IF job_name = NoName THEN [p |-> p, raised |-> "none"]
    ELSE IF ~ssh_ok THEN [p |-> p, raised |-> "SSHError"]
    ELSE [p |-> [p EXCEPT !.rm = @ \cup {job_name}], raised |-> "none"]

\* A variant that skips no event.
skips_event_never(event, sim_type) == FALSE

\* delete_remote_content, the test that leaves a validation event alone.
skips_event(event, sim_type) ==
    is_validation_event(event) /\ sim_type \notin {"prepare_forward", "forward"}

Lowest(S) == CHOOSE e \in S : \A f \in S : e <= f

RECURSIVE delete_events(_, _, _, _, _)
\* delete_remote_content, the loop over the events.
delete_events(p, iteration, sim_type, events, ssh_ok) ==
    IF events = {} THEN [p |-> p, raised |-> "none"]
    ELSE LET e == Lowest(events)
             rest == events \ {e}
         IN  IF skips_event(e, sim_type)
             THEN delete_events(p, iteration, sim_type, rest, ssh_ok)
             ELSE IF sim_type \notin {DeleteChain[i] : i \in DOMAIN DeleteChain}
             THEN [p |-> p, raised |-> "AssertionError"]
             ELSE IF get_job_name(p, e, sim_type, iteration) = NoName
             THEN delete_events(p, iteration, sim_type, rest, ssh_ok)
             ELSE LET r == delete_remote_job(p, get_job_name(p, e, sim_type, iteration),
                                             ssh_ok)
                  IN  IF r.raised # "none" THEN r
                      ELSE delete_events(r.p, iteration, sim_type, rest, ssh_ok)

\* SalvusFlow.delete_remote_content; event 0 stands for None.
delete_remote_content(p, iteration, sim_type, event, ssh_ok) ==
    LET current_iter == p.current_iteration
        p1 == IF iteration # current_iter
              THEN set_iteration_attributes(p, iteration) ELSE p
        events == IF event # 0 THEN {event} ELSE p1.tomls[iteration].events
        r == delete_events(p1, iteration, sim_type, events, ssh_ok)
    IN  IF r.raised # "none" THEN r
        ELSE [p |-> set_iteration_attributes(r.p, current_iter), raised |-> "none"]

\* delete_remote_iteration, the list of sim_types.
IterationSimTypes ==
    << "prepare_forward", "forward", "hpc_processing", "adjoint" >>
        \o (IF cfg.multi_mesh THEN << "gradient_interp" >> ELSE << >>)

RECURSIVE delete_sim_types(_, _, _, _)
\* delete_remote_iteration, the loop from the k-th sim_type on.
delete_sim_types(p, iteration, k, ssh_ok) ==
    IF k > Len(IterationSimTypes) THEN [p |-> p, raised |-> "none"]
    ELSE LET r == delete_remote_content(p, iteration, IterationSimTypes[k], 0, ssh_ok)
         IN  IF r.raised # "none" THEN r
             ELSE delete_sim_types(r.p, iteration, k + 1, ssh_ok)

\* SalvusFlow.delete_remote_iteration
delete_remote_iteration(p, iteration, ssh_ok) ==
    delete_sim_types(p, iteration, 1, ssh_ok)

RECURSIVE clean_old_iters(_, _, _)
\* Problem._clean_old_iters, the loop over the sorted manifests from
\* iteration n on.
clean_old_iters(p, n, ssh_ok) ==
    IF n > MaxIteration THEN [p |-> p, raised |-> "none"]
    ELSE IF ~p.tomls[n].exists \/ n \in p.deleted_iters
    THEN clean_old_iters(p, n + 1, ssh_ok)
    ELSE LET r == delete_remote_iteration(p, n, ssh_ok)
         IN  IF r.raised # "none" THEN r
             ELSE clean_old_iters([r.p EXCEPT !.deleted_iters = @ \cup {n}],
                                  n + 1, ssh_ok)

\* A variant that takes no iteration for an existing one.
iteration_exists_never(p, iteration) == FALSE

\* paths.get_iteration_toml(iteration).exists() and lasif.has_iteration
iteration_exists(p, iteration) == p.tomls[iteration].exists

\* Problem._get_or_create_iteration for the model of iteration n.
GetOrCreateIteration(n, batch, ssh_ok) ==
    /\ pc = "problem"
    /\ IF n = 0 THEN TRUE ELSE proj.tomls[n - 1].exists
    /\ IF iteration_exists(proj, n)
       THEN proj' = set_iteration_attributes(proj, n) /\ pc' = pc
       ELSE LET r == clean_old_iters(proj, 0, ssh_ok)
            IN  IF r.raised # "none"
                THEN proj' = r.p /\ pc' = "error"
                ELSE /\ proj' = create_iteration_toml(
                                    r.p, n, get_events_for_iteration(batch, n), "problem")
                     /\ pc' = pc
    /\ idle' = FALSE
    /\ UNCHANGED <<proc, cfg, job, nsub, lis, todo, pollStart, crashes, call,
                   interpolated>>

\* OptsonLink.prepare_iteration(events, iteration_name)
PrepareIteration(n, events) ==
    /\ pc = "problem"
    /\ IF n = 0 THEN TRUE ELSE proj.tomls[n - 1].exists
    /\ IF iteration_exists(proj, n)
       THEN proj' = set_iteration_attributes(proj, n)
       ELSE proj' = create_iteration_toml(proj, n, events, "optson")
    /\ idle' = FALSE
    /\ UNCHANGED <<proc, cfg, pc, job, nsub, lis, todo, pollStart, crashes, call,
                   interpolated>>

\* The jobs of the next stage of the current iteration are submitted and
\* their names recorded.
SubmitStage ==
    /\ pc = "problem"
    /\ proj.current_iteration \in Iterations
    /\ proj.tomls[proj.current_iteration].progress < Len(DeleteChain)
    /\ proj' = [proj EXCEPT !.tomls[proj.current_iteration].progress = @ + 1]
    /\ idle' = FALSE
    /\ UNCHANGED <<proc, cfg, pc, job, nsub, lis, todo, pollStart, crashes, call,
                   interpolated>>

\* A delete_remote_content call made on its own.
DeleteRemoteContent(iteration, sim_type, event, ssh_ok) ==
    /\ pc = "problem"
    /\ proj.calls < MaxDeleteCalls
    /\ proj.current_iteration \in Iterations
    /\ iteration_exists(proj, iteration)
    /\ event \in {0} \cup proj.tomls[iteration].events
    /\ LET r == delete_remote_content(proj, iteration, sim_type, event, ssh_ok)
       IN  /\ proj' = [r.p EXCEPT !.calls = @ + 1]
           /\ pc' = IF r.raised # "none" THEN "error" ELSE pc
    /\ idle' = FALSE
    /\ UNCHANGED <<proc, cfg, job, nsub, lis, todo, pollStart, crashes, call,
                   interpolated>>

\* A delete_remote_iteration call made on its own.
DeleteRemoteIteration(iteration, ssh_ok) ==
    /\ pc = "problem"
    /\ proj.calls < MaxDeleteCalls
    /\ proj.current_iteration \in Iterations
    /\ iteration_exists(proj, iteration)
    /\ LET r == delete_remote_iteration(proj, iteration, ssh_ok)
       IN  /\ proj' = [r.p EXCEPT !.calls = @ + 1]
           /\ pc' = IF r.raised # "none" THEN "error" ELSE pc
    /\ idle' = FALSE
    /\ UNCHANGED <<proc, cfg, job, nsub, lis, todo, pollStart, crashes, call,
                   interpolated>>

----------------------------------------------------------------------------
(* Start of a run, process termination and restart *)

\* Position of a fresh run of an orchestrator on the job records s.
Enter(p, s) ==
    /\ proc' = p
    /\ job' = s.job
    /\ nsub' = s.nsub
    /\ lis' = [l \in JobTypes |-> EmptyListener]
    /\ idle' = FALSE
    /\ todo' = Events
    /\ pc' = CASE p = "dispatch" -> "df_interp"
               [] p = "retrieve" -> "rf_mon_for"
               [] p = "gradients" -> "pg_mon_adj"
    /\ pollStart' = IF p = "dispatch" THEN NoSnap ELSE Snap(s)

\* The process dies between two loop passes and the program is run again,
\* from the dispatch of the forward simulations or from the same call.
CrashBetween ==
    /\ pc \notin Terminal
    /\ crashes < MaxCrashes
    /\ crashes' = crashes + 1
    /\ \E p \in {proc, "dispatch"} : Enter(p, St)
    /\ UNCHANGED <<cfg, call, interpolated, proj>>

\* The process dies inside a loop pass, after the first n of its effects.
CrashIn(e) ==
    /\ pc \in LoopPcs
    /\ e \in todo
    /\ crashes < MaxCrashes
    /\ crashes' = crashes + 1
    /\ \E n \in 1..(Len(BodyOps(pc, St, e)) - 1) :
         \E p \in {proc, "dispatch"} : Enter(p, ApplyOps(St, BodyOps(pc, St, e), n))
    /\ UNCHANGED <<cfg, call, interpolated, proj>>

----------------------------------------------------------------------------
(* Specifications *)

\* The job records a call starts from: an iteration in which the stages
\* before the call's own are done and the stage it waits for is submitted,
\* or (complete) an iteration in which every job is retrieved.
StartJob(p, c, stage) ==
    IF c.complete THEN DoneJob
    ELSE CASE p = "dispatch" -> NewJob
           [] p = "retrieve" ->
                IF stage = "model_interp" THEN DoneJob
                ELSE IF stage = "forward" THEN SubmittedJob
                ELSE NewJob
           [] p = "gradients" ->
                IF stage \in {"model_interp", "forward"} THEN DoneJob
                ELSE IF stage = "adjoint" THEN SubmittedJob
                ELSE NewJob

Configs ==
    [hpc : BOOLEAN, adjoint : BOOLEAN, validation : BOOLEAN,
     interpolate : BOOLEAN, complete : BOOLEAN,
     env : {"any", "benign", "odd", "scenario", "terminal"} \cup Stages,
     events : {1..NumEvents, AllEvents}]

\* The settings each call is started with.
ConfigOf(p, c) ==
    CASE p = "dispatch" -> ~c.hpc /\ ~c.adjoint /\ ~c.interpolate
      [] p = "retrieve" -> ~c.interpolate
      [] p = "gradients" -> ~c.hpc /\ c.adjoint /\ ~c.validation

InitWith(procs, envs) ==
    /\ proc \in procs
    /\ cfg \in {c \in Configs : /\ c.env \in envs
                                /\ c.events = IF c.env = "scenario" THEN AllEvents
                                             ELSE 1..NumEvents
                                /\ ConfigOf(proc, c)}
    /\ job = [stage \in JobTypes |-> [e \in Events |-> StartJob(proc, cfg, stage)]]
    /\ nsub = [stage \in JobTypes |-> [e \in Events |->
                  IF job[stage][e].submitted THEN 1 ELSE 0]]
    /\ lis = [l \in JobTypes |-> EmptyListener]
    /\ idle = FALSE
    /\ crashes = 0
    /\ call = NoCall
    /\ interpolated = {}
    /\ proj = NoProject
    /\ todo = Events
    /\ pc = CASE proc = "dispatch" -> "df_interp"
              [] proc = "retrieve" -> "rf_mon_for"
              [] proc = "gradients" -> "pg_mon_adj"
    /\ pollStart = IF proc = "dispatch" THEN NoSnap
                   ELSE [taken |-> TRUE, job |-> job, nsub |-> nsub]

Init == InitWith({"dispatch", "retrieve", "gradients"}, {"any"})

Step ==
    \/ \E e \in AllEvents : ExamineRetrieved(e)
    \/ \E e \in AllEvents : ExamineUnsubmitted(e)
    \/ \E e \in AllEvents : \E st \in Statuses : Poll(e, st)
    \/ EndMonitor
    \/ \E e \in AllEvents : RF_Already(e)
    \/ \E e \in AllEvents : RF_Now(e)
    \/ \E e \in AllEvents : RF_Repost(e)
    \/ RF_Check
    \/ \E e \in AllEvents : RF_HpcNow(e)
    \/ \E e \in AllEvents : RF_HpcRepost(e)
    \/ RF_HpcCheck
    \/ RF_Sleep
    \/ \E e \in AllEvents : DF_Interp(e)
    \/ DF_Listen
    \/ \E e \in AllEvents : DF_Now(e)
    \/ \E e \in AllEvents : DF_Repost(e)
    \/ DF_Check
    \/ DF_Sleep
    \/ PG_Interp
    \/ \E e \in AllEvents : PG_AdjNow(e)
    \/ \E e \in AllEvents : PG_AdjRepost(e)
    \/ \E e \in AllEvents : PG_GiNow(e)
    \/ \E e \in AllEvents : PG_GiRepost(e)
    \/ PG_InterpDone
    \/ PG_Check

Next == Step

\* Runs of one call, without process termination.
Spec == Init /\ [][Next]_vars

Recover ==
    \/ \E e \in AllEvents : DF_Remaining(e)
    \/ DF_RemainingDone

NextCrash ==
    \/ Step
    \/ Recover
    \/ CrashBetween
    \/ \E e \in AllEvents : CrashIn(e)

\* Runs in which the process may die and the program be run again.
SpecCrash == Init /\ [][NextCrash]_vars

InitScenario ==
    /\ InitWith({"retrieve"}, {"scenario"})
    /\ ~cfg.complete

NextScenario ==
    \/ \E e \in AllEvents : ExamineRetrieved(e)
    \/ \E e \in AllEvents : ExamineUnsubmitted(e)
    \/ \E e \in AllEvents : \E st \in Statuses : Poll(e, st)
    \/ EndMonitor
    \/ \E e \in AllEvents : RF_Already(e)
    \/ \E e \in AllEvents : RF_Now(e)
    \/ \E e \in AllEvents : RF_Repost(e)
    \/ RF_Check
    \/ \E e \in AllEvents : RF_HpcNow(e)
    \/ RF_HpcCheck
    \/ RF_Sleep

\* Runs of __retrieve_forward_simulations on a batch of three events whose
\* forward jobs are reported finished, failed and pending in the first round.
SpecScenario == InitScenario /\ [][NextScenario]_vars

\* Records of an iteration in which each job type is submitted for every
\* event or for none, on which get_job_status is called.
InitLookup ==
    /\ proc = "lookup"
    /\ cfg = [hpc |-> TRUE, adjoint |-> TRUE, validation |-> FALSE,
              interpolate |-> TRUE, complete |-> FALSE, env |-> "any",
              events |-> 1..NumEvents]
    /\ \E r \in [JobTypes -> {NewJob, SubmittedJob}] :
         job = [stage \in JobTypes |-> [e \in Events |-> r[stage]]]
    /\ nsub = [stage \in JobTypes |-> [e \in Events |->
                  IF job[stage][e].submitted THEN 1 ELSE 0]]
    /\ lis = [l \in JobTypes |-> EmptyListener]
    /\ idle = FALSE
    /\ crashes = 0
    /\ call = NoCall
    /\ interpolated = {}
    /\ proj = NoProject
    /\ todo = {}
    /\ pc = "lookup"
    /\ pollStart = NoSnap

NextLookup ==
    \E e \in AllEvents : \E sim_type \in SimTypes : \E st \in Statuses :
        GetJobStatus(e, sim_type, st)

\* Calls of get_job_status for the current iteration.
SpecLookup == InitLookup /\ [][NextLookup]_vars

\* The smoothing records a monitor_jobs call on a smoothing listener may
\* find: not dispatched, outstanding with the reposts the array path can
\* have written, or retrieved.
ArrayStartJobs ==
    {NewJob, DoneJob} \cup
    {[SubmittedJob EXCEPT !.reposts = r] : r \in 0..(max_reposts - 1)}

InitArray ==
    /\ proc = "smoothing"
    /\ cfg = [hpc |-> FALSE, adjoint |-> TRUE, validation |-> FALSE,
              interpolate |-> TRUE, complete |-> FALSE, env |-> "any",
              events |-> 1..NumEvents]
    /\ \E sm \in [Events -> ArrayStartJobs] :
         job = [stage \in JobTypes |->
                   IF stage = "smoothing" THEN sm ELSE [e \in Events |-> DoneJob]]
    /\ nsub = [stage \in JobTypes |-> [e \in Events |->
                  IF job[stage][e].submitted THEN 1 ELSE 0]]
    /\ lis = [l \in JobTypes |-> EmptyListener]
    /\ idle = FALSE
    /\ crashes = 0
    /\ call = NoCall
    /\ interpolated = {}
    /\ proj = NoProject
    /\ todo = Events
    /\ pc = "sm_mon"
    /\ pollStart = [taken |-> TRUE, job |-> job, nsub |-> nsub]

NextArray ==
    \/ \E e \in AllEvents : ArrayExamineRetrieved(e)
    \/ \E e \in AllEvents : \E sts \in TaskStatuses : PollArray(e, sts)
    \/ ArrayEndMonitor

\* One monitor_jobs(smooth_individual=True) call of a smoothing listener.
SpecArray == InitArray /\ [][NextArray]_vars

\* Runs in which every status query for the jobs of one stage (cfg.env) is
\* answered failed or unknown.
SpecBad == InitWith({"dispatch", "retrieve", "gradients"}, Stages) /\ [][Next]_vars

\* Runs in which the scheduler answers a status name the program does not
\* know for every job that is not finished, and monitor_jobs calls on a
\* smoothing listener with any answers.
SpecOdd ==
    /\ InitWith({"dispatch", "retrieve", "gradients"}, {"odd"}) \/ InitArray
    /\ [][Next \/ NextArray]_vars

\* Runs of every orchestrator and monitor_jobs calls on a smoothing
\* listener, with any answers of the scheduler.
SpecAll == (Init \/ InitArray) /\ [][Next \/ NextArray]_vars

\* A monitor_jobs call on a new listener of any job type; the records of its
\* type are unsubmitted, outstanding or retrieved.
InitMonitor ==
    /\ proc = "monitor"
    /\ \E jt \in ListenerTypes :
         cfg = [hpc |-> FALSE, adjoint |-> TRUE, validation |-> FALSE,
                interpolate |-> TRUE, complete |-> FALSE, env |-> "any",
                events |-> 1..NumEvents, job_type |-> jt]
    /\ \E r \in [Events -> {NewJob, SubmittedJob, DoneJob}] :
         job = [stage \in JobTypes |-> r]
    /\ nsub = [stage \in JobTypes |-> [e \in Events |->
                  IF job[stage][e].submitted THEN 1 ELSE 0]]
    /\ lis = [l \in JobTypes |-> EmptyListener]
    /\ idle = FALSE
    /\ crashes = 0
    /\ call = NoCall
    /\ interpolated = {}
    /\ proj = NoProject
    /\ todo = {}
    /\ pc = "monitor_jobs"
    /\ pollStart = Snap(St)

NextMonitor ==
    \/ MonitorJobs
    \/ \E e \in AllEvents : ExamineRetrieved(e)
    \/ \E e \in AllEvents : ExamineUnsubmitted(e)
    \/ \E e \in AllEvents : \E st \in Statuses : Poll(e, st)
    \/ \E e \in AllEvents : ArrayExamineRetrieved(e)
    \/ \E e \in AllEvents : \E sts \in TaskStatuses : PollArray(e, sts)
    \/ ArrayEndMonitor

\* One monitor_jobs call of a listener of any job type.
SpecMonitor == InitMonitor /\ [][NextMonitor]_vars

\* A new project: no iteration has a manifest.
InitProblem ==
    /\ proc = "problem"
    /\ \E v \in 0..MaxInterval : \E mm \in BOOLEAN :
         cfg = [hpc |-> FALSE, adjoint |-> TRUE, validation |-> FALSE,
                interpolate |-> mm, complete |-> FALSE, env |-> "any",
                events |-> 1..NumEvents, val_itv |-> v, multi_mesh |-> mm]
    /\ job = [stage \in JobTypes |-> [e \in Events |-> NewJob]]
    /\ nsub = [stage \in JobTypes |-> [e \in Events |-> 0]]
    /\ lis = [l \in JobTypes |-> EmptyListener]
    /\ idle = FALSE
    /\ crashes = 0
    /\ call = NoCall
    /\ interpolated = {}
    /\ proj = [tomls |-> [n \in Iterations |-> NoManifest],
               current_iteration |-> -1, deleted_iters |-> {}, rm |-> {},
               calls |-> 0]
    /\ todo = {}
    /\ pc = "problem"
    /\ pollStart = NoSnap

NextProblem ==
    \/ \E n \in Iterations : \E batch \in {{1}, 1..NumEvents} : \E ssh_ok \in BOOLEAN :
         GetOrCreateIteration(n, batch, ssh_ok)
    \/ \E n \in Iterations : \E events \in {1..NumEvents, AllEvents} :
         PrepareIteration(n, events)
    \/ SubmitStage

\* Iterations prepared one after the other and their jobs submitted stage by
\* stage.
SpecProblem == InitProblem /\ [][NextProblem]_vars

\* A project with two iterations, each with the jobs of some of its stages
\* submitted, on which remote content is deleted.
InitDelete ==
    /\ proc = "delete"
    /\ \E mm \in BOOLEAN :
         cfg = [hpc |-> FALSE, adjoint |-> TRUE, validation |-> FALSE,
                interpolate |-> mm, complete |-> FALSE, env |-> "any",
                events |-> 1..NumEvents, val_itv |-> 1, multi_mesh |-> mm]
    /\ job = [stage \in JobTypes |-> [e \in Events |-> NewJob]]
    /\ nsub = [stage \in JobTypes |-> [e \in Events |-> 0]]
    /\ lis = [l \in JobTypes |-> EmptyListener]
    /\ idle = FALSE
    /\ crashes = 0
    /\ call = NoCall
    /\ interpolated = {}
    /\ \E m \in [Iterations -> [events : {1..NumEvents, AllEvents},
                                 progress : 0..Len(DeleteChain)]] :
         \E current \in Iterations :
            proj = [tomls |-> [n \in Iterations |->
                                 [NewManifest(m[n].events, "problem")
                                    EXCEPT !.progress = m[n].progress]],
                    current_iteration |-> current, deleted_iters |-> {}, rm |-> {},
                    calls |-> 0]
    /\ todo = {}
    /\ pc = "problem"
    /\ pollStart = NoSnap

NextDelete ==
    \/ \E iteration \in Iterations : \E sim_type \in SimTypes :
         \E event \in {0} \cup AllEvents : \E ssh_ok \in BOOLEAN :
            DeleteRemoteContent(iteration, sim_type, event, ssh_ok)
    \/ \E iteration \in Iterations : \E ssh_ok \in BOOLEAN :
         DeleteRemoteIteration(iteration, ssh_ok)

\* One delete_remote_content or delete_remote_iteration call.
SpecDelete == InitDelete /\ [][NextDelete]_vars

\* A dispatch_forward_simulations call on a new iteration, or on one in which
\* the forward job of the first event is already submitted.
InitMesh ==
    /\ proc = "dispatch"
    /\ \E m \in Meshes : \E im \in InterpolationModes : \E v \in BOOLEAN :
         cfg = [hpc |-> FALSE, adjoint |-> FALSE, validation |-> v,
                interpolate |-> FALSE, complete |-> FALSE, env |-> "any",
                events |-> 1..NumEvents, meshes |-> m, interpolation_mode |-> im]
    /\ \E first \in {NewJob, SubmittedJob} :
         /\ (cfg.meshes = "multi-mesh") => first = NewJob
         /\ job = [stage \in JobTypes |-> [e \in Events |->
                     IF stage = "forward" /\ e = 1 THEN first ELSE NewJob]]
    /\ nsub = [stage \in JobTypes |-> [e \in Events |->
                  IF job[stage][e].submitted THEN 1 ELSE 0]]
    /\ lis = [l \in JobTypes |-> EmptyListener]
    /\ idle = FALSE
    /\ crashes = 0
    /\ call = NoCall
    /\ interpolated = {}
    /\ proj = NoProject
    /\ todo = {}
    /\ pc = "dfs"
    /\ pollStart = NoSnap

NextMesh ==
    \/ DispatchForwardSimulations
    \/ \E e \in AllEvents : DispatchNormal(e)
    \/ DispatchNormalDone
    \/ \E e \in AllEvents : DF_Interp(e)
    \/ DF_Listen
    \/ \E e \in AllEvents : ExamineRetrieved(e)
    \/ \E e \in AllEvents : \E st \in Statuses : Poll(e, st)
    \/ EndMonitor
    \/ \E e \in AllEvents : DF_Now(e)
    \/ \E e \in AllEvents : DF_Repost(e)
    \/ DF_Check
    \/ DF_Sleep

\* Runs of dispatch_forward_simulations in every mesh configuration.
SpecMesh == InitMesh /\ [][NextMesh]_vars

\* Runs in which no job fails and every job that keeps being polled is
\* eventually reported finished; the orchestrator keeps running.
SpecFair ==
    /\ InitWith({"dispatch", "retrieve", "gradients"}, {"benign"})
    /\ [][Next]_vars
    /\ WF_vars(Next)
    /\ \A e \in 1..NumEvents : SF_vars(Poll(e, "finished"))

\* Runs in which every job has reached a terminal status (finished, failed,
\* unknown or cancelled) by the time it is polled; the orchestrator keeps
\* running.
SpecTerminal ==
    /\ InitWith({"dispatch", "retrieve", "gradients"}, {"terminal"})
    /\ [][Next]_vars
    /\ WF_vars(Next)

----------------------------------------------------------------------------
(* Claims *)

\* C1: in every reachable state, also between the effects of a loop pass
\* (the records a process termination leaves behind), every job record that
\* is retrieved is submitted.
C1_RetrievedImpliesSubmitted ==
    \A s \in Stages : \A e \in Events : job[s][e].retrieved => job[s][e].submitted

\* C1 witness: a process died right after repost handling reset submitted for
\* a reposted job, while another job of the same stage was retrieved.
C1_Witness ==
    /\ crashes = 1
    /\ \E s \in Stages : \E e, f \in Events :
         /\ job[s][e].reposts > 0 /\ ~job[s][e].submitted /\ ~job[s][e].retrieved
         /\ job[s][f].retrieved

C3_FatalRoundChangesNothing ==
    pc = "raised" =>
        /\ nsub = pollStart.nsub
        /\ \A s \in Stages : \A e \in Events :
             /\ job[s][e].submitted = pollStart.job[s][e].submitted
             /\ job[s][e].retrieved = pollStart.job[s][e].retrieved

\* C4: if no job fails and every job is eventually reported finished,
\* retrieve_forward_simulations eventually returns, whatever the settings.
C4_RetrieveReturns == (proc = "retrieve") => <>(pc = "done")

\* C5: when process_gradients returns with interpolate=True, every event is
\* retrieved for adjoint and for gradient_interp.
C5_GradientsComplete ==
    (proc = "gradients" /\ pc = "done" /\ cfg.interpolate) =>
        \A e \in Events :
            job["adjoint"][e].retrieved /\ job["gradient_interp"][e].retrieved

C7_RestartSubmitsAdjoints ==
    (proc = "retrieve" /\ pc = "done" /\ crashes > 0
        /\ cfg.adjoint /\ ~cfg.validation) =>
        \A e \in Events : job["adjoint"][e].submitted

\* C8: when dispatch_forward_simulations returns, in a validation iteration
\* or a regular one and whatever records it started from, every event's
\* forward job is submitted.
C8_DispatchSubmitsForwards ==
    (proc = "dispatch" /\ pc = "done") =>
        \A e \in Events : job["forward"][e].submitted

\* C9: a job is launched for a record that is submitted and not retrieved
\* only if the listener put the event on to_repost, and the listener puts an
\* event on to_repost only in a status query answered failed or unknown.
C9_NoResubmitWithoutFailedPoll ==
    [][\A s \in Stages : \A e \in Events :
         /\ (job[s][e].submitted /\ ~job[s][e].retrieved /\ nsub'[s][e] > nsub[s][e])
                => e \in lis[s].repost
         /\ (e \in lis'[s].repost /\ e \notin lis[s].repost)
                => (Poll(e, "failed") \/ Poll(e, "unknown"))]_vars

\* C9 witness: after a restart the listener has polled a job that was
\* outstanding when the run began, found it neither finished nor failed, and
\* no job was launched for it.
C9_Witness ==
    /\ crashes = 1
    /\ InMon
    /\ \E e \in Events \ todo :
         LET l == MonOf[pc]
         IN  /\ lis[l].already = {}
             /\ pollStart.job[l][e].submitted /\ ~pollStart.job[l][e].retrieved
             /\ e \notin (lis[l].now \cup lis[l].repost)
             /\ nsub[l][e] = pollStart.nsub[l][e]

\* C10: a run on records that are all submitted and retrieved launches no
\* job, changes no record and never invokes the idle wait.
C10_IdempotentOnCompleteRecords ==
    cfg.complete =>
        /\ ~idle
        /\ \A s \in Stages : \A e \in Events : job[s][e] = DoneJob /\ nsub[s][e] = 1

\* C11: when the loops of a round are over, every event whose job was
\* reported finished in that round has its next job submitted (forward after
\* model_interp; hpc_processing or adjoint after forward; adjoint after
\* hpc_processing; gradient_interp after adjoint), whatever the other events'
\* jobs were reported as.
C11_NextStageInSameRound ==
    /\ (pc = "df_repost" /\ todo = {}) =>
           \A e \in lis["model_interp"].now : job["forward"][e].submitted
    /\ (pc = "rf_repost" /\ todo = {}) =>
           \A e \in lis["forward"].now :
               /\ (cfg.hpc /\ ~cfg.validation) => job["hpc_processing"][e].submitted
               /\ (cfg.adjoint /\ ~cfg.hpc) => job["adjoint"][e].submitted
    /\ (pc = "rf_hpc_repost" /\ todo = {}) =>
           \A e \in lis["hpc_processing"].now : job["adjoint"][e].submitted
    /\ (pc = "pg_adj_repost" /\ todo = {}) =>
           \A e \in lis["adjoint"].now :
               cfg.interpolate => job["gradient_interp"][e].submitted

\* C11 witness: a round of retrieve_forward_simulations is over in which one
\* event's forward job finished and its adjoint job is submitted, while
\* another event's forward job failed and was reposted.
C11_Witness ==
    /\ pc = "rf_repost" /\ todo = {}
    /\ cfg.adjoint /\ ~cfg.hpc
    /\ \E a, b \in Events :
         /\ a \in lis["forward"].now /\ job["adjoint"][a].submitted
         /\ b \in lis["forward"].repost /\ ~job["forward"][b].retrieved

\* C12: every launch a loop pass makes finds submitted = FALSE on the record
\* it launches a job for, and as long as the process has not been terminated
\* the launches for a record number at most 1 + its reposts.
C12_SubmitOnlyUnsubmitted ==
    /\ \A e \in Events :
         (pc \in LoopPcs /\ e \in todo) =>
             LET ops == BodyOps(pc, St, e)
             IN  \A i \in 1..Len(ops) :
                     ops[i].k = "launch" =>
                         ~ApplyOps(St, ops, i - 1).job[ops[i].stage][ops[i].event].submitted
    /\ crashes = 0 =>
         \A s \in Stages : \A e \in Events : nsub[s][e] <= 1 + job[s][e].reposts

\* C12 witness: a job that was reposted twice has been launched three times.
C12_Witness ==
    \E s \in Stages : \E e \in Events :
        /\ crashes = 0
        /\ job[s][e].submitted
        /\ job[s][e].reposts = 2
        /\ nsub[s][e] = 3

\* C13: a status query of an array job that reports exactly one sub-task
\* failed and all the others finished leaves the finished sub-tasks retrieved
\* and only the failing sub-task flagged for resubmission.
C13_PartialFailureIsolated ==
    [][\A e \in Events : \A sts \in TaskStatuses : \A k \in Tasks :
         (/\ PollArray(e, sts)
          /\ sts[k] = "failed"
          /\ \A m \in Tasks \ {k} : sts[m] = "finished")
         => (/\ TasksRetrieved(lis', e) = Tasks \ {k}
             /\ TasksToRepost(lis', e) = {k})]_vars

\* The stage that follows the forward stage for an event is submitted.
C14_NextStageSubmitted(e) ==
    /\ (cfg.hpc /\ ~cfg.validation) => job["hpc_processing"][e].submitted
    /\ (cfg.adjoint /\ ~cfg.hpc) => job["adjoint"][e].submitted

\* C14: with a batch of three events whose forward jobs are reported
\* finished, failed and pending in the first round, that round leaves event 1
\* retrieved with its next stage submitted, event 2 with a repost count of 1
\* and resubmitted, and event 3 unchanged; the second round, in which events 2
\* and 3 finish, leaves all three retrieved with the next stage submitted for
\* all three, and the loop ends with it (where the same loop also awaits the
\* hpc_processing jobs it launched, it goes on for those).
C14_TwoRoundScenario ==
    /\ (pc = "rf_repost" /\ todo = {} /\ lis["forward"].already = {}) =>
          /\ job["forward"][1].retrieved /\ C14_NextStageSubmitted(1)
          /\ job["forward"][2].reposts = 1 /\ job["forward"][2].submitted
          /\ ~job["forward"][2].retrieved
          /\ nsub["forward"][2] = 2
          /\ job["forward"][3] = SubmittedJob /\ nsub["forward"][3] = 1
          /\ \A e \in {2, 3} : \A s \in {"hpc_processing", "adjoint"} :
                 job[s][e] = NewJob
    /\ (pc = "rf_repost" /\ todo = {} /\ lis["forward"].already = {1}) =>
          \A e \in Events : job["forward"][e].retrieved /\ C14_NextStageSubmitted(e)
    /\ ((\A e \in Events : job["forward"][e].retrieved)
          /\ ~(cfg.hpc /\ cfg.adjoint /\ ~cfg.validation))
         => pc \in {"rf_now", "rf_repost", "done"}

\* C15: wherever the process can terminate, a job that has been launched is
\* recorded as submitted, so that no job is launched a second time for a
\* submission lost in a restart: a record whose job was launched more often
\* than it was reposted is submitted, and no record has more launches than
\* one and its reposts.
C15_LaunchIsRecorded ==
    \A s \in Stages : \A e \in Events :
        /\ nsub[s][e] > job[s][e].reposts => job[s][e].submitted
        /\ nsub[s][e] <= 1 + job[s][e].reposts

\* C16: get_job_status for an event whose record of the current iteration
\* is not submitted fails at once, with an assertion failure for forward and
\* adjoint and with InversionsonError for gradient_interp, hpc_processing and
\* prepare_forward; the scheduler is not queried and no job record changes.
C16_UnsubmittedLookupFails ==
    [][\A e \in Events : \A st \in Statuses :
        \A sim_type \in {"forward", "adjoint", "gradient_interp",
                          "hpc_processing", "prepare_forward"} :
          (GetJobStatus(e, sim_type, st) /\ ~job[sim_type][e].submitted)
          => /\ call'.outcome = IF sim_type \in {"forward", "adjoint"}
                                THEN "AssertionError" ELSE "InversionsonError"
             /\ ~call'.queried
             /\ job' = job]_vars

C16_Witness ==
    /\ call.sim_type = "forward" /\ call.outcome = "AssertionError"
    /\ ~job["forward"][call.event].submitted
    /\ \E e \in Events : job["hpc_processing"][e].submitted

\* C17: within an iteration the submitted flag of a record goes from False
\* to True at most once, together with the assignment of the job name: no
\* record holds a newly assigned name (one later than its reposts account
\* for) without being submitted, and no record was submitted a second time.
C17_SubmittedOnceWithName ==
    \A s \in Stages : \A e \in Events :
        /\ job[s][e].name > job[s][e].reposts => job[s][e].submitted
        /\ nsub[s][e] <= 1

\* C18: the retrieved flag of a record is written True at most once, so no
\* loop pass writes it on a record that is retrieved already, and it never
\* returns to False.
C18_RetrievedWrittenOnce ==
    [][/\ \A e \in Events : (pc \in LoopPcs /\ e \in todo) =>
            LET ops == BodyOps(pc, St, e)
            IN  \A i \in 1..Len(ops) : (ops[i].k = "retrieved" /\ ops[i].v) =>
                    ~ApplyOps(St, ops, i - 1).job[ops[i].stage][ops[i].event].retrieved
       /\ \A s \in Stages : \A e \in Events :
            job[s][e].retrieved => job'[s][e].retrieved]_vars

\* C19: when a job is reported failed or unknown the listener raises exactly
\* when the repost count, incremented, meets or exceeds max_reposts, and
\* otherwise stores the incremented count and flags the event for
\* resubmission; the job-by-job path and the array path behave alike.
C19_SameRepostThreshold ==
    [][/\ \A e \in Events : \A st \in {"failed", "unknown"} :
            Poll(e, st) =>
              LET l == MonOf[pc]
              IN  /\ pc' = "raised" <=> job[l][e].reposts + 1 >= max_reposts
                  /\ pc' # "raised" =>
                        /\ job'[l][e].reposts = job[l][e].reposts + 1
                        /\ e \in lis'[l].repost
       /\ \A e \in Events : \A sts \in TaskStatuses :
            (PollArray(e, sts) /\ \E k \in Tasks : sts[k] \in {"failed", "unknown"}) =>
              /\ pc' = "raised" <=> job["smoothing"][e].reposts + 1 >= max_reposts
              /\ pc' # "raised" =>
                    /\ job'["smoothing"][e].reposts = job["smoothing"][e].reposts + 1
                    /\ e \in lis'["smoothing"].repost]_vars

\* C20: a job of a stage is submitted for an event only after the retrieved
\* flag of the stage before it is True for that event: model_interp before
\* forward, forward before hpc_processing and adjoint, hpc_processing (where
\* it runs) before adjoint, adjoint before gradient_interp.
C20_SubmitAfterRetrievedFlag ==
    \A e \in Events : (pc \in LoopPcs /\ e \in todo) =>
        LET ops == BodyOps(pc, St, e)
        IN  \A i \in 1..Len(ops) : ops[i].k = "launch" =>
              LET before == ApplyOps(St, ops, i - 1).job
                  ev == ops[i].event
              IN  CASE ops[i].stage = "forward" -> before["model_interp"][ev].retrieved
                    [] ops[i].stage = "hpc_processing" -> before["forward"][ev].retrieved
                    [] ops[i].stage = "adjoint" ->
                         /\ before["forward"][ev].retrieved
                         /\ cfg.hpc => before["hpc_processing"][ev].retrieved
                    [] ops[i].stage = "gradient_interp" -> before["adjoint"][ev].retrieved
                    [] OTHER -> TRUE

\* C21: the listener never writes retrieved=True itself: no step of a poll
\* changes the retrieved flag of a record of any stage, gradient_interp
\* included; the flag is written only by the orchestrator's loop passes.
C21_ListenerLeavesRetrieved ==
    [][InMon => \A s \in Stages : \A e \in Events :
                   job'[s][e].retrieved = job[s][e].retrieved]_vars

\* C22: at the end of every polling round, and after the fatal error, the
\* repost count of a record equals the number of times its job was
\* resubmitted: the launches after the first.
C22_RepostsCountResubmissions ==
    pc \in {"rf_sleep", "df_sleep", "pg_check", "done", "raised"} =>
        \A s \in Stages : \A e \in Events :
            job[s][e].reposts = IF nsub[s][e] > 0 THEN nsub[s][e] - 1 ELSE 0

C24_IdleIffNothingRetrieved ==
    [][/\ RF_Sleep =>
            (idle' <=> lis["forward"].seen = {} /\ lis["hpc_processing"].seen = {})
       /\ (PG_Check /\ pc' # "done") =>
            (idle' <=> lis["adjoint"].seen = {} /\ lis["gradient_interp"].seen = {})
       /\ DF_Sleep => (idle' <=> lis["model_interp"].seen = {})]_vars

\* C25: a poll in which the job of an event is reported pending, running or
\* cancelled leaves the event's job record unchanged and puts the event on
\* neither events_retrieved_now nor to_repost.
C25_WaitingJobUnchanged ==
    [][\A e \in Events : \A st \in {"pending", "running", "cancelled"} :
          Poll(e, st) =>
            LET l == MonOf[pc]
            IN  /\ job'[l][e] = job[l][e]
                /\ e \notin lis'[l].now
                /\ e \notin lis'[l].repost
                /\ pc' = pc]_vars

C25_Witness ==
    /\ pc = "rf_mon_for" /\ todo = {}
    /\ \E a, b \in Events :
         /\ a \in lis["forward"].now
         /\ b \notin lis["forward"].now \cup lis["forward"].already
         /\ job["forward"][b] = SubmittedJob

\* C26: a status name outside pending, running, finished, failed, unknown
\* and cancelled makes the listener warn and go on: no error is raised, no
\* job record changes, and the poll continues with the remaining events,
\* job by job and for an array job (where no sub-task failed).
C26_UnknownStatusNameIgnored ==
    [][/\ \A e \in Events :
            Poll(e, "other") =>
              /\ pc' = pc /\ job' = job /\ todo' = todo \ {e}
              /\ lis'[MonOf[pc]].now = lis[MonOf[pc]].now
              /\ lis'[MonOf[pc]].repost = lis[MonOf[pc]].repost
       /\ \A e \in Events : \A sts \in TaskStatuses :
            (/\ PollArray(e, sts)
             /\ \E k \in Tasks : sts[k] = "other"
             /\ \A k \in Tasks : sts[k] \notin {"failed", "unknown"}) =>
              /\ pc' = pc /\ job' = job /\ todo' = todo \ {e}
              /\ lis'["smoothing"] = lis["smoothing"]]_vars

C26_Witness ==
    /\ cfg.env = "odd"
    /\ pc = "pg_mon_adj" /\ todo = {}
    /\ \E a, b \in Events :
         /\ a \in lis["adjoint"].now
         /\ b \notin lis["adjoint"].now \cup lis["adjoint"].already
         /\ job["adjoint"][b] = SubmittedJob

\* C27: for every job type, smoothing array jobs included, a poll issues no
\* status query for an event whose record is not submitted, and does not
\* change the repost count of such a record.
C27_UnsubmittedNotQueried ==
    [][/\ \A e \in Events : \A st \in Statuses :
            Poll(e, st) => job[MonOf[pc]][e].submitted
       /\ \A e \in Events : \A sts \in TaskStatuses :
            PollArray(e, sts) => job["smoothing"][e].submitted
       /\ \A s \in JobTypes : \A e \in Events :
            ~job[s][e].submitted => job'[s][e].reposts = job[s][e].reposts]_vars

\* C28: once the record of an event says retrieved for a stage, no poll of
\* a listener of that stage queries the status of that job, whether the
\* listener has the event on its events_already_retrieved or is a new one.
C28_RetrievedNotQueried ==
    [][/\ \A e \in Events : \A st \in Statuses :
            Poll(e, st) => ~job[MonOf[pc]][e].retrieved
       /\ pc = "sm_mon" =>
            \A e \in Events : \A sts \in TaskStatuses :
                PollArray(e, sts) => ~job["smoothing"][e].retrieved]_vars

C28_Witness ==
    /\ crashes = 1
    /\ pc = "rf_mon_for" /\ todo = {}
    /\ \E a, b \in Events :
         /\ job["forward"][a].retrieved /\ a \in lis["forward"].already
         /\ b \in lis["forward"].now

\* C29: at the end of every poll the listener's events_retrieved_now,
\* to_repost, events_already_retrieved and not_submitted are pairwise
\* disjoint and hold no event twice, over any number of rounds.
C29_ListsDisjoint ==
    (InMon /\ todo = {}) =>
        LET l == lis[MonOf[pc]]
            not_submitted == {e \in Events : l.notsub[e] > 0}
        IN  /\ l.now \cap l.repost = {}
            /\ l.now \cap l.already = {}
            /\ l.repost \cap l.already = {}
            /\ not_submitted \cap (l.now \cup l.repost \cup l.already) = {}
            /\ \A e \in Events : l.notsub[e] <= 1

\* C30: for given job records and given scheduler answers, the records and
\* the outcome (normal end or fatal error) after a poll do not depend on the
\* order in which the poll examines the events.
C30_OrderIrrelevant ==
    (InMon /\ pollStart.taken /\ job = pollStart.job
       /\ todo = Events \ lis[MonOf[pc]].already) =>
        \A answers \in [Events -> Statuses] : \A o1, o2 \in Orders(todo) :
            monitor_jobs(job, MonOf[pc], o1, answers)
                = monitor_jobs(job, MonOf[pc], o2, answers)

\* C31: with validation=True, retrieve_forward_simulations launches no
\* hpc_processing job and no adjoint job for any event, and returns as soon
\* as the forward job of every event is retrieved.
C31_ValidationStopsAtForward ==
    (proc = "retrieve" /\ cfg.validation) =>
        /\ \A e \in Events :
             /\ nsub["hpc_processing"][e] = (IF cfg.complete THEN 1 ELSE 0)
             /\ nsub["adjoint"][e] = (IF cfg.complete THEN 1 ELSE 0)
        /\ pc \in {"rf_sleep", "rf_mon_hpc", "rf_hpc_now", "rf_hpc_repost"}
               => \E e \in Events : ~job["forward"][e].retrieved

\* C32: in a multi-mesh configuration with local interpolation the
\* non-validation dispatch interpolates the model for an event before it
\* submits the forward job of that event; only mono-mesh skips it.
C32_InterpolatedBeforeForward ==
    [][\A e \in AllEvents :
         (/\ e \in Events
          /\ pc = "dn" /\ ~cfg.validation
          /\ cfg.meshes = "multi-mesh" /\ cfg.interpolation_mode = "local"
          /\ nsub'["forward"][e] > nsub["forward"][e])
             => e \in interpolated']_vars

\* C33: if every submitted job reaches a terminal scheduler status, each
\* orchestration loop eventually returns or raises the fatal repost error.
C33_LoopsEnd == <>(pc \in {"done", "raised"})

\* C34: in every reachable state the stored reposts count of every job
\* record, of a single job or of an array job, is between 0 and max_reposts.
C34_RepostsInRange ==
    \A s \in JobTypes : \A e \in Events : job[s][e].reposts \in 0..max_reposts

\* C34 witness: a poll has brought the count of a job to max_reposts and
\* flagged it for resubmission.
C34_Witness ==
    /\ InMon
    /\ \E e \in lis[MonOf[pc]].repost : job[MonOf[pc]][e].reposts = max_reposts

\* C35: in one poll of an array job the reposts count rises by at most one
\* and the event is appended to to_repost at most once, however many of its
\* sub-tasks are reported failed or unknown.
C35_ArrayCountedOnce ==
    [][pc = "sm_mon" =>
         \A e \in Events : \A sts \in TaskStatuses :
            PollArray(e, sts) =>
                /\ job'["smoothing"][e].reposts <= job["smoothing"][e].reposts + 1
                /\ check_status_of_job_array(job["smoothing"][e].reposts, sts).appends <= 1]_vars

\* C35 witness: a poll of an array job has flagged its event for
\* resubmission and raised its count by one.
C35_Witness ==
    /\ pc = "sm_mon"
    /\ \E e \in lis["smoothing"].repost :
         job["smoothing"][e].reposts = pollStart.job["smoothing"][e].reposts + 1

\* C38: monitor_jobs on a listener whose job type is none of forward,
\* adjoint, model_interp, gradient_interp, hpc_processing or smoothing raises
\* InversionsonError without a status query and without changing a record.
C38_UnknownTypeRaises ==
    (proc = "monitor"
       /\ cfg.job_type \notin {"forward", "adjoint", "model_interp",
                                "gradient_interp", "hpc_processing", "smoothing"}) =>
        /\ pc \in {"monitor_jobs", "not_recognised"}
        /\ job = pollStart.job
        /\ nsub = pollStart.nsub
        /\ lis = [l \in JobTypes |-> EmptyListener]

\* C38 witness: monitor_jobs has raised on a prepare_forward listener whose
\* records hold an outstanding job.
C38_Witness ==
    /\ proc = "monitor"
    /\ pc = "not_recognised"
    /\ cfg.job_type = "prepare_forward"
    /\ \E e \in Events : job["prepare_forward"][e] = SubmittedJob

\* C36: validation events are added to the event list of an iteration
\* exactly when the validation interval is non-zero and the iteration number
\* is 0 or (iteration number + 1) is a multiple of the interval.
C36_ValidationEventsAdded ==
    \A n \in Iterations :
        (proj.tomls[n].exists /\ proj.tomls[n].by = "problem") =>
            ((validation_dataset \subseteq proj.tomls[n].events)
                <=> (/\ cfg.val_itv # 0
                     /\ (n = 0 \/ (n + 1) % cfg.val_itv = 0)))

\* C36 witness: with interval 2 the manifest of iteration 1 holds the
\* validation events.
C36_Witness ==
    /\ proc = "problem"
    /\ cfg.val_itv = 2
    /\ proj.tomls[1].exists /\ proj.tomls[1].by = "problem"
    /\ validation_dataset \subseteq proj.tomls[1].events

\* C37: preparing an iteration whose manifest exists only loads its records:
\* no manifest is created or changed, no event list is selected again and no
\* remote job is deleted.
C37_ExistingIterationOnlyLoaded ==
    [][\A n \in Iterations :
         (/\ proc = "problem"
          /\ proj.tomls[n].exists
          /\ \/ \E batch \in {{1}, 1..NumEvents} : \E ssh_ok \in BOOLEAN :
                  GetOrCreateIteration(n, batch, ssh_ok)
             \/ \E events \in {1..NumEvents, AllEvents} : PrepareIteration(n, events))
            => /\ proj'.tomls = proj.tomls
               /\ proj'.rm = proj.rm
               /\ proj'.deleted_iters = proj.deleted_iters
               /\ proj'.current_iteration = n
               /\ pc' = pc]_vars

\* C37 witness: iteration 0, with jobs submitted, has been entered again
\* after iteration 1 was created.
C37_Witness ==
    /\ proc = "problem"
    /\ proj.tomls[1].exists
    /\ proj.current_iteration = 0
    /\ proj.tomls[0].progress > 0

\* C39: no remote delete command is issued for a job whose recorded name is
\* empty, and a validation event has jobs deleted only for the stages
\* prepare_forward and forward.
C39_DeletesOnlySubmittedJobs ==
    proc = "delete" =>
        /\ NoName \notin proj.rm
        /\ \A name \in proj.rm :
              /\ StageIdx(name[2]) <= proj.tomls[name[1]].progress
              /\ is_validation_event(name[3])
                    => name[2] \in {"prepare_forward", "forward"}

\* C39 witness: delete_remote_iteration has deleted the forward job of a
\* validation event of an iteration whose jobs of the first three stages only
\* were submitted.
C39_Witness ==
    /\ proc = "delete"
    /\ \E n \in Iterations :
          /\ proj.tomls[n].progress = 3
          /\ validation_dataset \subseteq proj.tomls[n].events
          /\ \E e \in validation_dataset : << n, "forward", e >> \in proj.rm
          /\ << n, "hpc_processing", 1 >> \in proj.rm

\* C40: a delete_remote_content call for an iteration other than the current
\* one leaves the loaded iteration attributes those of the iteration that was
\* current before the call, on every path out of the call.
C40_AttributesRestored ==
    [][\A iteration \in Iterations : \A sim_type \in SimTypes :
         \A event \in {0} \cup AllEvents : \A ssh_ok \in BOOLEAN :
            (/\ iteration # proj.current_iteration
             /\ DeleteRemoteContent(iteration, sim_type, event, ssh_ok))
               => proj'.current_iteration = proj.current_iteration]_vars

====
